---- MODULE Spec2Model ----
(***************************************************************************)
(* Model of gns3/progress.py: the Progress controller, which keeps a map   *)
(* of running network queries and shows, updates and hides one modal       *)
(* QProgressDialog for them.                                               *)
(*                                                                         *)
(* The Qt objects are modelled by what the controller observes of them:    *)
(*   - a QProgressDialog is a record of the properties the controller      *)
(*     sets (setMaximum, setValue, setLabelText, setMinimumDuration,       *)
(*     setCancelButtonText), its wasCanceled() flag and its visibility;    *)
(*     the maximum and value fields hold the last arguments passed to      *)
(*     setMaximum and setValue;                                            *)
(*   - QProgressDialog.cancel() sets wasCanceled() and hides the dialog;   *)
(*     the canceled signal (cancel button, Escape, window close) runs the  *)
(*     dialog's own cancel() and then the connected _cancelSlot;           *)
(*   - a queued signal is an entry of the UI thread's event queue;         *)
(*   - a QTimer.singleShot is a pending timer that fires once; the timers  *)
(*     carry no argument, so the pending ones are counted (stimer), and    *)
(*     each has a time left before it is due (due);                        *)
(*   - time passes only in SpecTimed; the other specifications do not      *)
(*     measure time and let a pending timer fire at any moment;            *)
(*   - the dialogs the object has dropped are counted too (live), and the  *)
(*     held dialog bears an identity that differs from its predecessor's.  *)
(*                                                                         *)
(* A handler is one step. setValue() of a displayed modal dialog may run   *)
(* queued slots from inside show(); it is the last call of show() that a   *)
(* field of the object depends on, so the nested slots act as if they ran  *)
(* right after the handler.                                                *)
(***************************************************************************)
EXTENDS Integers, Sequences, FiniteSets, TLC

\* ---------------------------------------------------------------- bounds
\* QProgressDialog objects dropped by the object without deleteLater().
MaxLeaked == 1
\* singleShot timers pending at one time.
MaxTimers == 2
\* Cap of _finished_query_during_display (the code never bounds it).
MaxFinished == 2
\* Length of the UI thread's queue at which the network threads stop emitting add and
\* progress signals.
MaxQueue == 1
\* Queries the network threads start in one behaviour.
MaxQueries == 2
\* Depth of nested context() blocks, where context() is studied on its own.
MaxDepth == 2

\* ---------------------------------------------------------------- inputs
QueryIds == {"q1", "q2"}
Responses == {"r1", "r2"}
\* the (explanation, response) pairs of the queries the application starts
Requests == {[explanation |-> "e1", response |-> "r1"],
             [explanation |-> "e2", response |-> "r2"]}
\* current / maximum values reported by a progress callback (bytes received, bytes total)
ProgressValues == {0, 1}
ButtonTexts == {"", "Cancel"}
\* the threads that call Progress.instance()
Threads == {"t1", "t2", "t3"}

VARIABLES
    queries,                        \* self._queries
    order,                          \* the keys of self._queries in the dict's (insertion) order
    progress_dialog,                \* self._progress_dialog
    finished_query_during_display,  \* self._finished_query_during_display
    stimer,                         \* number of pending singleShot timers of self._stimer
    due,                            \* the time left (ms) of each pending timer, in start order
    minimum_duration,               \* self._minimum_duration
    cancel_button_text,             \* self._cancel_button_text
    allow_cancel_query,             \* self._allow_cancel_query
    enable,                         \* self._enable
    live,                           \* number of dialogs constructed and not yet given to deleteLater()
    serial,                         \* identity of the last dialog constructed
    aborted,                        \* abort() calls made by the last handler, per response
    last,                           \* the last operation run and its arguments
    ctx,                            \* the suspended context() generators, innermost last
    queue,                          \* the UI thread's queue of queued-connection signals
    outstanding,                    \* ids whose add signal was emitted and remove signal not yet
    started,                        \* number of add signals emitted by the network threads
    instance_attr,                  \* Progress._instance (0: absent or None)
    pc,                             \* where each thread calling instance() stands
    obj,                            \* the Progress() each thread has constructed (0: none)
    returned,                       \* what instance() last returned to each thread (0: nothing yet)
    constructed                     \* number of runs of Progress.__init__

vars == <<queries, order, progress_dialog, finished_query_during_display, stimer, due,
          minimum_duration, cancel_button_text, allow_cancel_query, enable,
          live, serial, aborted, last, ctx, queue, outstanding, started,
          instance_attr, pc, obj, returned, constructed>>

threadVars == <<instance_attr, pc, obj, returned, constructed>>
signalVars == <<queue, outstanding, started>>

\* ------------------------------------------------------------ the dialog
\* self._progress_dialog = None
None ==
    [id |-> 0, wasCanceled |-> FALSE, visible |-> FALSE, maximum |-> 0, value |-> -1,
     labelText |-> "", minimumDuration |-> 0, cancelButtonText |-> "", age |-> 0]

\* QProgressDialog("Waiting for server response", None, 0, 0, parent) followed by
\* setMinimumDuration and setCancelButtonText / setCancelButton(None); age is the time
\* (ms) since the construction, measured up to minimumDuration
NewDialog(n, duration, text) ==
    [id |-> n, wasCanceled |-> FALSE, visible |-> FALSE, maximum |-> 0, value |-> -1,
     labelText |-> "Waiting for server response", minimumDuration |-> duration,
     cancelButtonText |-> text, age |-> 0]

\* QProgressDialog.cancel(): wasCanceled() becomes true and the dialog is hidden
\* (its progress bar is reset)
cancel(dialog) == [dialog EXCEPT !.wasCanceled = TRUE, !.visible = FALSE, !.value = -1]

NoAbort == [r \in Responses |-> 0]

\* The fields of the Progress object, as one record the methods transform.
Self ==
    [queries |-> queries,
     order |-> order,
     progress_dialog |-> progress_dialog,
     finished_query_during_display |-> finished_query_during_display,
     stimer |-> stimer,
     due |-> due,
     minimum_duration |-> minimum_duration,
     cancel_button_text |-> cancel_button_text,
     allow_cancel_query |-> allow_cancel_query,
     enable |-> enable,
     live |-> live,
     serial |-> serial,
     aborted |-> NoAbort]

Commit(s) ==
    /\ queries' = s.queries
    /\ order' = s.order
    /\ progress_dialog' = s.progress_dialog
    /\ finished_query_during_display' = s.finished_query_during_display
    /\ stimer' = s.stimer
    /\ due' = s.due
    /\ minimum_duration' = s.minimum_duration
    /\ cancel_button_text' = s.cancel_button_text
    /\ allow_cancel_query' = s.allow_cancel_query
    /\ enable' = s.enable
    /\ live' = s.live
    /\ serial' = s.serial
    /\ aborted' = s.aborted

NoQueries == [q \in {} |-> 0]

\* list(self._queries.values())[0]: the entry of the first key in the dict's order
First(self) == self.queries[Head(self.order)]

\* seq less its i-th element
Drop(seq, i) == SubSeq(seq, 1, i - 1) \o SubSeq(seq, i + 1, Len(seq))

\* the order of the keys left once query_id is deleted
Without(seq, query_id) == SelectSeq(seq, LAMBDA q : q # query_id)

\* The identity of the next QProgressDialog constructed. Two identities, taken in
\* turn, tell a dialog from the one constructed before it.
NewId(self) == 3 - self.serial

\* ---------------------------------------------------------------- show()
setProgress_activeOnly(dialog, self) ==
    LET n == Cardinality(DOMAIN self.queries)
        fin == self.finished_query_during_display
    IN  IF n > 1
        THEN [dialog EXCEPT !.maximum = n + fin, !.value = fin]
        ELSE IF n = 1
             THEN [dialog EXCEPT !.maximum = First(self).maximum,
                                 !.value = First(self).current]
             ELSE dialog

\* the else branch of show(): the progress of the queries when several are running
\* or have finished, otherwise the progress of the one query
setProgress(dialog, self) ==
    LET n == Cardinality(DOMAIN self.queries)
        fin == self.finished_query_during_display
    IN  IF n + fin > 1
        THEN [dialog EXCEPT !.maximum = n + fin, !.value = fin]
        ELSE IF n = 1
             THEN [dialog EXCEPT !.maximum = First(self).maximum,
                                 !.value = First(self).current]
             ELSE dialog

show(self) ==
    LET Q == self.queries
        n == Cardinality(DOMAIN Q)
        old == self.progress_dialog
        fresh == old = None \/ old.wasCanceled
        built == NewDialog(NewId(self), self.minimum_duration, self.cancel_button_text)
        dialog == IF fresh THEN built ELSE setProgress(old, self)
        labelled ==
            IF n > 0 THEN [dialog EXCEPT !.labelText = First(self).explanation]
            ELSE dialog
    IN  IF fresh
        THEN [self EXCEPT !.progress_dialog = labelled,
                          !.finished_query_during_display = 0,
                          !.live = self.live + 1,
                          !.serial = NewId(self),
                          !.stimer = self.stimer + 1,
                          !.due = Append(self.due, self.minimum_duration)]
        ELSE [self EXCEPT !.progress_dialog = labelled]

\* ---------------------------------------------------------------- hide()
hide_keepsReference(self) ==
    IF self.progress_dialog # None
    THEN [self EXCEPT !.progress_dialog = cancel(@), !.live = self.live - 1]
    ELSE self

hide(self) ==
    IF self.progress_dialog # None
    THEN [self EXCEPT !.progress_dialog = None, !.live = self.live - 1]
    ELSE self

\* ----------------------------------------------------------------- slots
addQuerySlot(self, query_id, explanation, response) ==
    LET entry == [explanation |-> explanation, current |-> 0, maximum |-> 0,
                  response |-> response]
        Q == [q \in DOMAIN self.queries \cup {query_id} |->
                 IF q = query_id THEN entry ELSE self.queries[q]]
        keys == IF query_id \in DOMAIN self.queries THEN self.order
                ELSE Append(self.order, query_id)
    IN  show([self EXCEPT !.queries = Q, !.order = keys])

removeQuerySlot_keepsDialog(self, query_id) ==
    LET Q == [q \in DOMAIN self.queries \ {query_id} |-> self.queries[q]]
        s == [self EXCEPT !.finished_query_during_display = @ + 1, !.queries = Q,
                          !.order = Without(self.order, query_id)]
    IN  IF DOMAIN Q = {} THEN s ELSE show(s)

removeQuerySlot(self, query_id) ==
    LET Q == [q \in DOMAIN self.queries \ {query_id} |-> self.queries[q]]
        s == [self EXCEPT !.finished_query_during_display = @ + 1, !.queries = Q,
                          !.order = Without(self.order, query_id)]
    IN  IF DOMAIN Q = {} THEN hide(s) ELSE show(s)

progressSlot_resetsEntry(self, query_id, current, maximum) ==
    IF query_id \in DOMAIN self.queries
    THEN show([self EXCEPT !.queries[query_id] =
                  [explanation |-> "", current |-> current, maximum |-> maximum,
                   response |-> @.response]])
    ELSE self

progressSlot_alwaysShows(self, query_id, current, maximum) ==
    IF query_id \in DOMAIN self.queries
    THEN show([self EXCEPT !.queries[query_id].current = current,
                           !.queries[query_id].maximum = maximum])
    ELSE show(self)

progressSlot(self, query_id, current, maximum) ==
    IF query_id \in DOMAIN self.queries
    THEN show([self EXCEPT !.queries[query_id].current = current,
                           !.queries[query_id].maximum = maximum])
    ELSE self

cancelSlot_first(self) ==
    IF self.allow_cancel_query /\ self.order # << >>
    THEN [self EXCEPT !.aborted = [r \in Responses |->
             IF First(self).response = r THEN 1 ELSE 0]]
    ELSE self

cancelSlot_ungated(self) ==
    [self EXCEPT !.aborted =
        [r \in Responses |->
            Cardinality({q \in DOMAIN self.queries : self.queries[q].response = r})]]

cancelSlot(self) ==
    IF self.allow_cancel_query
    THEN [self EXCEPT !.aborted =
             [r \in Responses |->
                 Cardinality({q \in DOMAIN self.queries : self.queries[q].response = r})]]
    ELSE self

\* the canceled signal of the held dialog: QProgressDialog's own connection to
\* cancel(), then the connection made in show() to _cancelSlot
canceled(self) == cancelSlot([self EXCEPT !.progress_dialog = cancel(@)])

setAllowCancelQuery(self, allow) == [self EXCEPT !.allow_cancel_query = allow]

setCancelButtonText(self, text) == [self EXCEPT !.cancel_button_text = text]

show_dialog_ignoresEnable(self) ==
    IF self.progress_dialog # None
    THEN [self EXCEPT !.progress_dialog.visible = TRUE]
    ELSE self

\* _show_dialog: show() and exec_() of the held dialog
show_dialog(self) ==
    IF self.progress_dialog # None /\ self.enable
    THEN [self EXCEPT !.progress_dialog.visible = TRUE]
    ELSE self

\* -------------------------------------------------------------- context()
OptionNames == {"min_duration", "enable", "cancel_button_text", "allow_cancel_query"}

\* kwargs: the options passed (keys) and their values; an option not passed holds
\* the filler value of NoKwargs
NoKwargs ==
    [keys |-> {}, min_duration |-> 0, enable |-> FALSE, cancel_button_text |-> "",
     allow_cancel_query |-> FALSE]

\* the value a block passes for each option
PassedValues ==
    [min_duration |-> 0, enable |-> FALSE, cancel_button_text |-> "Cancel",
     allow_cancel_query |-> TRUE]

\* context(**kwargs) called with the options of S
Kwargs(S) ==
    [keys |-> S,
     min_duration |->
         IF "min_duration" \in S THEN PassedValues.min_duration ELSE NoKwargs.min_duration,
     enable |-> IF "enable" \in S THEN PassedValues.enable ELSE NoKwargs.enable,
     cancel_button_text |->
         IF "cancel_button_text" \in S THEN PassedValues.cancel_button_text
         ELSE NoKwargs.cancel_button_text,
     allow_cancel_query |->
         IF "allow_cancel_query" \in S THEN PassedValues.allow_cancel_query
         ELSE NoKwargs.allow_cancel_query]

AllKwargs == {Kwargs(S) : S \in SUBSET OptionNames}

\* the four settings of the object
Settings(self) ==
    [min_duration |-> self.minimum_duration, enable |-> self.enable,
     cancel_button_text |-> self.cancel_button_text,
     allow_cancel_query |-> self.allow_cancel_query]

\* context() up to its yield: the generator's locals (old_*; a local never assigned
\* holds the filler value) with, for the record, the settings at entry and whether
\* the body has called a setter of the object since
contextFrame(self, kw) ==
    [kwargs |-> kw,
     old_minimum_duration |->
         IF "min_duration" \in kw.keys THEN self.minimum_duration ELSE NoKwargs.min_duration,
     old_enable |-> IF "enable" \in kw.keys THEN self.enable ELSE NoKwargs.enable,
     old_cancel_button_text |->
         IF "cancel_button_text" \in kw.keys THEN self.cancel_button_text
         ELSE NoKwargs.cancel_button_text,
     old_allow_cancel_query |->
         IF "allow_cancel_query" \in kw.keys THEN self.allow_cancel_query
         ELSE NoKwargs.allow_cancel_query,
     before |-> Settings(self),
     touched |-> FALSE]

contextEnter(self, kw) ==
    [self EXCEPT
        !.minimum_duration = IF "min_duration" \in kw.keys THEN kw.min_duration ELSE @,
        !.enable = IF "enable" \in kw.keys THEN kw.enable ELSE @,
        !.cancel_button_text =
            IF "cancel_button_text" \in kw.keys THEN kw.cancel_button_text ELSE @,
        !.allow_cancel_query =
            IF "allow_cancel_query" \in kw.keys THEN kw.allow_cancel_query ELSE @]

contextExit_keepsText(self, frame) ==
    [self EXCEPT
        !.minimum_duration =
            IF "min_duration" \in frame.kwargs.keys THEN frame.old_minimum_duration ELSE @,
        !.enable = IF "enable" \in frame.kwargs.keys THEN frame.old_enable ELSE @,
        !.allow_cancel_query =
            IF "allow_cancel_query" \in frame.kwargs.keys THEN frame.old_allow_cancel_query
            ELSE @]

\* context() after its yield, when the block ends normally
contextExit(self, frame) ==
    [self EXCEPT
        !.minimum_duration =
            IF "min_duration" \in frame.kwargs.keys THEN frame.old_minimum_duration ELSE @,
        !.enable = IF "enable" \in frame.kwargs.keys THEN frame.old_enable ELSE @,
        !.allow_cancel_query =
            IF "allow_cancel_query" \in frame.kwargs.keys THEN frame.old_allow_cancel_query
            ELSE @,
        !.cancel_button_text =
            IF "cancel_button_text" \in frame.kwargs.keys THEN frame.old_cancel_button_text
            ELSE @]

\* context() when the body of the block raises: contextmanager throws the exception
\* into the generator at its yield; no try statement encloses the yield, so the
\* exception leaves the generator and none of the statements after the yield runs
contextRaise(self, frame) == self

\* --------------------------------------------------------------- signals
Event(name, id, explanation, response, current, maximum) ==
    [op |-> name, id |-> id, explanation |-> explanation, response |-> response,
     current |-> current, maximum |-> maximum]

Op(name) == Event(name, "", "", "", 0, 0)

AddEvents == {Event("add", q, rq.explanation, rq.response, 0, 0) :
                 q \in QueryIds, rq \in Requests}
RemoveEvents == {Event("remove", q, "", "", 0, 0) : q \in QueryIds}
ProgressEvents ==
    {ev \in {Event("progress", q, "", "", c, m) :
                q \in QueryIds, c \in ProgressValues, m \in ProgressValues} :
        ev.current <= ev.maximum}

\* the slot a queued signal is connected to (__init__, the three connect calls)
slot(self, ev) ==
    CASE ev.op = "add" -> addQuerySlot(self, ev.id, ev.explanation, ev.response)
      [] ev.op = "remove" -> removeQuerySlot(self, ev.id)
      [] ev.op = "progress" -> progressSlot(self, ev.id, ev.current, ev.maximum)

\* --------------------------------------------------------------- actions
Bounded(s) ==
    /\ s.stimer <= MaxTimers
    /\ s.live <= MaxLeaked + 1
    /\ s.finished_query_during_display <= MaxFinished

Init ==
    /\ queries = NoQueries
    /\ order = << >>
    /\ progress_dialog = None
    /\ finished_query_during_display = 0
    /\ stimer = 0
    /\ due = << >>
    /\ minimum_duration = 1000
    /\ cancel_button_text = ""
    /\ allow_cancel_query = FALSE
    /\ enable = TRUE
    /\ live = 0
    /\ serial = 2
    /\ aborted = NoAbort
    /\ last = Op("init")
    /\ ctx = << >>
    /\ queue = << >>
    /\ outstanding = {}
    /\ started = 0
    /\ instance_attr = 0
    /\ pc = [t \in Threads |-> "call"]
    /\ obj = [t \in Threads |-> 0]
    /\ returned = [t \in Threads |-> 0]
    /\ constructed = 0

\* a method of the object run on the UI thread
Run(s, op) ==
    /\ Commit(s)
    /\ last' = op
    /\ UNCHANGED <<ctx, signalVars, threadVars>>

\* A queued signal handled by its slot, whatever the signal is.
AddQuery == \E ev \in AddEvents : Bounded(slot(Self, ev)) /\ Run(slot(Self, ev), ev)

RemoveQuery == \E ev \in RemoveEvents : Bounded(slot(Self, ev)) /\ Run(slot(Self, ev), ev)

Progress == \E ev \in ProgressEvents : Bounded(slot(Self, ev)) /\ Run(slot(Self, ev), ev)

\* The user cancels the displayed dialog: the canceled signal runs the dialog's own
\* cancel() slot and then _cancelSlot.
UserCancel ==
    /\ progress_dialog # None
    /\ progress_dialog.visible
    /\ live <= MaxLeaked
    /\ Run(canceled(Self), Op("cancel"))

\* The pending timer i fires and runs _show_dialog.
Fire(i) ==
    Run(show_dialog([Self EXCEPT !.stimer = @ - 1, !.due = Drop(@, i)]), Op("timer"))

\* A pending singleShot timer fires, time not being measured.
TimerFires == \E i \in DOMAIN due : Fire(i)

\* show() and hide() called directly by the application
Show == Bounded(show(Self)) /\ Run(show(Self), Op("show"))

Hide == Run(hide(Self), Op("hide"))

\* a setter called by the application, possibly from the body of a context() block
Touched(stack) == [i \in DOMAIN stack |-> [stack[i] EXCEPT !.touched = TRUE]]

SetAllowCancelQuery ==
    \E b \in BOOLEAN :
        /\ Commit(setAllowCancelQuery(Self, b))
        /\ ctx' = Touched(ctx)
        /\ last' = Op("set")
        /\ UNCHANGED <<signalVars, threadVars>>

SetCancelButtonText ==
    \E t \in ButtonTexts :
        /\ Commit(setCancelButtonText(Self, t))
        /\ ctx' = Touched(ctx)
        /\ last' = Op("set")
        /\ UNCHANGED <<signalVars, threadVars>>

\* with Progress.instance().context(**kw): entering the block, kw among K, when fewer
\* than depth blocks are open
Enter(K, depth) ==
    \E kw \in K :
        /\ Len(ctx) < depth
        /\ Commit(contextEnter(Self, kw))
        /\ ctx' = Append(ctx, contextFrame(Self, kw))
        /\ last' = Op("enter")
        /\ UNCHANGED <<signalVars, threadVars>>

\* the innermost block ends normally
ContextExit ==
    /\ ctx # << >>
    /\ Commit(contextExit(Self, ctx[Len(ctx)]))
    /\ ctx' = SubSeq(ctx, 1, Len(ctx) - 1)
    /\ last' = Op("exit")
    /\ UNCHANGED <<signalVars, threadVars>>

\* the kwargs the application's blocks pass
CallerKwargs == {Kwargs({"allow_cancel_query"})}

\* a block around the handling of the queries (such blocks are not nested here)
ContextEnter == Enter(CallerKwargs, 1)

Next ==
    \/ AddQuery
    \/ RemoveQuery
    \/ Progress
    \/ UserCancel
    \/ TimerFires
    \/ Show
    \/ Hide
    \/ ContextEnter
    \/ ContextExit

Spec == Init /\ [][Next]_vars

\* --------------------- the events alone: no direct call of show() or hide()
EventsNext ==
    \/ AddQuery
    \/ RemoveQuery
    \/ Progress
    \/ UserCancel
    \/ TimerFires
    \/ ContextEnter
    \/ ContextExit

SpecEvents == Init /\ [][EventsNext]_vars

\* ------------------------------------------------- context() on its own
ContextEnterAny == Enter(AllKwargs, MaxDepth)

ContextNext ==
    \/ ContextEnterAny
    \/ ContextExit
    \/ SetAllowCancelQuery
    \/ SetCancelButtonText

SpecContext == Init /\ [][ContextNext]_vars

\* ---------------------------------------- context() with bodies that raise
\* The body of the innermost block raises. The exception then goes on to the
\* enclosing block (which raises in its turn) or is caught before it.
ContextRaise ==
    /\ ctx # << >>
    /\ Commit(contextRaise(Self, ctx[Len(ctx)]))
    /\ ctx' = SubSeq(ctx, 1, Len(ctx) - 1)
    /\ last' = Op("raise")
    /\ UNCHANGED <<signalVars, threadVars>>

RaiseNext ==
    \/ ContextEnterAny
    \/ ContextExit
    \/ ContextRaise

SpecRaise == Init /\ [][RaiseNext]_vars

\* ------------------------------------- the signals through the event queue
\* The network threads emit the signals; a queued connection appends the signal to
\* the UI thread's queue, and the UI thread runs the slots one at a time in queue
\* order. Every query started is completed: its remove signal is emitted in the end.
UIFieldsUnchanged ==
    UNCHANGED <<queries, order, progress_dialog, finished_query_during_display, stimer, due,
                minimum_duration, cancel_button_text, allow_cancel_query, enable,
                live, serial, aborted, last, ctx, threadVars>>

\* the signals the network threads emit in this specification (a query reports its
\* progress while it runs)
EmittedAdds == {ev \in AddEvents : ev.response = "r1"}
EmittedProgress == {ev \in ProgressEvents : ev.current = 1}

EmitAdd ==
    \E ev \in EmittedAdds :
        /\ started < MaxQueries
        /\ Len(queue) < MaxQueue
        /\ queue' = Append(queue, ev)
        /\ outstanding' = outstanding \cup {ev.id}
        /\ started' = started + 1
        /\ UIFieldsUnchanged

EmitProgress ==
    \E ev \in EmittedProgress :
        /\ ev.id \in outstanding
        /\ Len(queue) < MaxQueue
        /\ queue' = Append(queue, ev)
        /\ UNCHANGED <<outstanding, started>>
        /\ UIFieldsUnchanged

EmitRemove(q) ==
    /\ q \in outstanding
    /\ queue' = Append(queue, Event("remove", q, "", "", 0, 0))
    /\ outstanding' = outstanding \ {q}
    /\ UNCHANGED started
    /\ UIFieldsUnchanged

\* the UI thread takes the signal at the head of its queue and runs its slot
Deliver ==
    /\ queue # << >>
    /\ Bounded(slot(Self, Head(queue)))
    /\ Commit(slot(Self, Head(queue)))
    /\ last' = Head(queue)
    /\ queue' = Tail(queue)
    /\ UNCHANGED <<outstanding, started, ctx, threadVars>>

QueueNext ==
    \/ EmitAdd
    \/ EmitProgress
    \/ \E q \in QueryIds : EmitRemove(q)
    \/ Deliver
    \/ UserCancel
    \/ TimerFires

\* The event loop runs the queued slots and the timers that are due; a query started
\* is completed.
FairSpec ==
    /\ Init
    /\ [][QueueNext]_vars
    /\ WF_vars(Deliver)
    /\ WF_vars(TimerFires)
    /\ \A q \in QueryIds : WF_vars(EmitRemove(q))

\* ------------------------------------------------ Progress.instance()
\* One call of instance() by thread t, statement by statement: the threads run under
\* the interpreter lock, which is released between the test, the constructor call,
\* the assignment and the read of the return statement.
UIUnchanged ==
    UNCHANGED <<queries, order, progress_dialog, finished_query_during_display, stimer, due,
                minimum_duration, cancel_button_text, allow_cancel_query, enable,
                live, serial, aborted, ctx, signalVars>>

\* if not hasattr(Progress, "_instance") or Progress._instance is None
instanceTest(attr) == IF attr = 0 THEN "construct" ELSE "return"

InstanceTest(t) ==
    /\ pc[t] = "call"
    /\ pc' = [pc EXCEPT ![t] = instanceTest(instance_attr)]
    /\ last' = Event("instance", t, "", "", 0, 0)
    /\ UNCHANGED <<instance_attr, obj, returned, constructed>>
    /\ UIUnchanged

\* Progress(): __init__ runs and yields a new object
InstanceConstruct(t) ==
    /\ pc[t] = "construct"
    /\ constructed' = constructed + 1
    /\ obj' = [obj EXCEPT ![t] = constructed + 1]
    /\ pc' = [pc EXCEPT ![t] = "assign"]
    /\ last' = Event("construct", t, "", "", 0, 0)
    /\ UNCHANGED <<instance_attr, returned>>
    /\ UIUnchanged

\* Progress._instance = <the new object>
InstanceAssign(t) ==
    /\ pc[t] = "assign"
    /\ instance_attr' = obj[t]
    /\ pc' = [pc EXCEPT ![t] = "return"]
    /\ last' = Event("assign", t, "", "", 0, 0)
    /\ UNCHANGED <<obj, returned, constructed>>
    /\ UIUnchanged

\* return Progress._instance; the thread may call instance() again
InstanceReturn(t) ==
    /\ pc[t] = "return"
    /\ returned' = [returned EXCEPT ![t] = instance_attr]
    /\ pc' = [pc EXCEPT ![t] = "call"]
    /\ last' = Event("return", t, "", "", 0, 0)
    /\ UNCHANGED <<instance_attr, obj, constructed>>
    /\ UIUnchanged

InstanceNext ==
    \E t \in Threads :
        \/ InstanceTest(t)
        \/ InstanceConstruct(t)
        \/ InstanceAssign(t)
        \/ InstanceReturn(t)

SpecInstance == Init /\ [][InstanceNext]_vars

\* ------------------------------------------------------ time and the timers
\* Time passes between two handlers of the UI thread: every pending timer comes
\* closer to being due and the held dialog grows older. A timer fires once it is due,
\* possibly later (the UI thread may be busy), never earlier.
Elapses == {500, 1000}

Min(a, b) == IF a <= b THEN a ELSE b

elapse(self, ms) ==
    [self EXCEPT
        !.due = [i \in DOMAIN self.due |-> self.due[i] - Min(ms, self.due[i])],
        !.progress_dialog.age = Min(@ + ms, self.progress_dialog.minimumDuration)]

Tick == \E ms \in Elapses : Run(elapse(Self, ms), Op("tick"))

\* A pending timer that is due fires and runs _show_dialog.
Timeout == \E i \in DOMAIN due : due[i] = 0 /\ Fire(i)

\* the blocks of the application that disable the dialog or change its delay
TimedKwargs == {Kwargs({"enable"}), Kwargs({"min_duration"})}

TimedEnter == Enter(TimedKwargs, 1)

TimedNext ==
    \/ AddQuery
    \/ RemoveQuery
    \/ UserCancel
    \/ Tick
    \/ Timeout
    \/ TimedEnter
    \/ ContextExit

SpecTimed == Init /\ [][TimedNext]_vars

\* ============================================================ properties
Active == DOMAIN queries

Hidden == Active = {} /\ progress_dialog = None

\* the step just taken constructed a dialog
Created == progress_dialog'.id \notin {0, progress_dialog.id}

\* show() was called by the step just taken
ShowCalled ==
    \/ last'.op \in {"add", "show"}
    \/ last'.op = "progress" /\ last'.id \in Active
    \/ last'.op = "remove" /\ Active' # {}

\* C1: over add, remove, progress and cancel events (no direct show() or hide()), after
\* each event a dialog is held exactly when the query map is not empty; the dialog is
\* created by the add that makes the map non-empty and released by the remove that
\* empties it.
C1_DialogIffActive ==
    [][/\ (progress_dialog' # None) <=> (Active' # {})
       /\ (Active = {} /\ Active' # {})
              => /\ last'.op = "add"
                 /\ progress_dialog = None
                 /\ Created
       /\ (Active # {} /\ Active' = {})
              => /\ last'.op = "remove"
                 /\ progress_dialog # None
                 /\ progress_dialog' = None
                 /\ live' = live - 1]_vars

C1_Witness ==
    /\ last.op = "remove"
    /\ Hidden
    /\ stimer > 0

\* C2: whenever show() creates a dialog, every dialog created before has been released
\* through hide(), so at most one created and not released dialog exists at any time.
C2_SingleDialog == [][Created => live = 0 /\ live' = 1]_vars

\* C3, as stated: on a user cancel, abort() is invoked exactly once on the response of
\* every query in the map at that moment, and on no other response.
C3_AbortEveryResponse ==
    [][last'.op = "cancel"
          => \A r \in Responses :
                aborted'[r] = IF \E q \in Active : queries[q].response = r THEN 1 ELSE 0]_vars

\* C3, amended: on a user cancel with allow_cancel_query true, abort() is invoked once
\* for each query in the map at that moment, on that query's response, and on no other
\* response; with allow_cancel_query false, abort() is not invoked.
C3_AbortWhenAllowed ==
    [][last'.op = "cancel"
          => aborted' =
                IF allow_cancel_query
                THEN [r \in Responses |->
                         Cardinality({q \in Active : queries[q].response = r})]
                ELSE NoAbort]_vars

C3_Witness ==
    /\ last.op = "cancel"
    /\ allow_cancel_query
    /\ Active = QueryIds
    /\ \A r \in Responses : aborted[r] = 1

\* C4: an add for q sets q's entry to {explanation, 0, 0, response} and changes no other
\* entry; a progress for q in the map sets only q's current and maximum; a remove for q
\* deletes only q's entry; no other event changes the map.
C4_MapFrame ==
    [][LET ev == last'
       IN  CASE ev.op = "add" ->
                  /\ Active' = Active \cup {ev.id}
                  /\ queries'[ev.id] = [explanation |-> ev.explanation, current |-> 0,
                                        maximum |-> 0, response |-> ev.response]
                  /\ \A q \in Active \ {ev.id} : queries'[q] = queries[q]
             [] ev.op = "progress" /\ ev.id \in Active ->
                  /\ Active' = Active
                  /\ queries'[ev.id].current = ev.current
                  /\ queries'[ev.id].maximum = ev.maximum
                  /\ queries'[ev.id].explanation = queries[ev.id].explanation
                  /\ queries'[ev.id].response = queries[ev.id].response
                  /\ \A q \in Active \ {ev.id} : queries'[q] = queries[q]
             [] ev.op = "remove" ->
                  /\ Active' = Active \ {ev.id}
                  /\ \A q \in Active' : queries'[q] = queries[q]
             [] OTHER -> queries' = queries]_vars

C4_Witness ==
    /\ last.op = "progress"
    /\ Active = QueryIds
    /\ queries[last.id].current = 1
    /\ \E q \in Active : q # last.id /\ queries[q].explanation # queries[last.id].explanation

\* C5: when show() updates an existing dialog that was not cancelled: if active queries
\* plus the finished counter exceed 1, the maximum is their sum and the value is the
\* counter; otherwise, with exactly one active query, the maximum and value are that
\* query's maximum and current; otherwise they are left unchanged.
C5_AggregatedProgress ==
    [][(ShowCalled /\ progress_dialog # None /\ ~progress_dialog.wasCanceled)
          => LET n == Cardinality(Active')
                 f == finished_query_during_display'
                 d == progress_dialog'
             IN  IF n + f > 1
                 THEN d.maximum = n + f /\ d.value = f
                 ELSE IF n = 1
                      THEN \A q \in Active' :
                              d.maximum = queries'[q].maximum /\ d.value = queries'[q].current
                      ELSE /\ d.maximum = progress_dialog.maximum
                           /\ d.value = progress_dialog.value]_vars

C5_Witness ==
    /\ last.op = "remove"
    /\ Cardinality(Active) = 1
    /\ finished_query_during_display = 1
    /\ progress_dialog.maximum = 2
    /\ progress_dialog.value = 1

\* C6: with the queued events handled one at a time in queue order and every add
\* followed by a remove of the same id, eventually the map is empty and no dialog is
\* held, and this stays so until the next add is handled.
AddDelivered == queue # << >> /\ Head(queue).op = "add" /\ queue' = Tail(queue)

C6_EventuallyHidden ==
    /\ (~Hidden) ~> Hidden
    /\ [][Hidden /\ ~AddDelivered => Hidden']_vars

C6_Witness ==
    /\ Hidden
    /\ last.op = "remove"
    /\ started = MaxQueries
    /\ queue = << >>
    /\ outstanding = {}

\* C7: on entry of a context() block each option passed takes the value passed and the
\* others are left alone; while the block is the innermost one and its body has called
\* no setter, each option passed has the value passed; on normal exit the options not
\* passed are left alone and, the body having called no setter, all four settings have
\* the values they had just before entry. Nested blocks included.
Agree(S, a, b) ==
    /\ "min_duration" \in S => a.min_duration = b.min_duration
    /\ "enable" \in S => a.enable = b.enable
    /\ "cancel_button_text" \in S => a.cancel_button_text = b.cancel_button_text
    /\ "allow_cancel_query" \in S => a.allow_cancel_query = b.allow_cancel_query

Now == Settings(Self)

C7_ContextRoundTrip ==
    [][/\ last'.op = "enter"
              => LET f == ctx'[Len(ctx')]
                 IN  /\ Agree(f.kwargs.keys, Now', f.kwargs)
                     /\ Agree(OptionNames \ f.kwargs.keys, Now', Now)
       /\ last'.op = "exit"
              => LET f == ctx[Len(ctx)]
                 IN  /\ Agree(OptionNames \ f.kwargs.keys, Now', Now)
                     /\ ~f.touched => Now' = f.before
       /\ (ctx' # << >> /\ ~ctx'[Len(ctx')].touched)
              => Agree(ctx'[Len(ctx')].kwargs.keys, Now', ctx'[Len(ctx')].kwargs)]_vars

\* an inner block has ended and given the outer block's values back
C7_Witness ==
    /\ last.op = "exit"
    /\ Len(ctx) = 1
    /\ ~ctx[1].touched
    /\ ctx[1].kwargs.keys = {"min_duration", "cancel_button_text"}
    /\ ctx[1].before.cancel_button_text = "Cancel"
    /\ Now.min_duration = 0
    /\ Now.cancel_button_text = "Cancel"
    /\ Now.allow_cancel_query

\* C8: in any interleaving of calls of Progress.instance(), threads included, every
\* call returns the same object and the constructor runs at most once.
C8_Singleton ==
    /\ constructed <= 1
    /\ \A t, u \in Threads :
          (returned[t] # 0 /\ returned[u] # 0) => returned[t] = returned[u]

\* C9: a user cancel with allow_cancel_query false invokes no abort(); in either case
\* the cancel leaves the map, the finished counter and the dialog reference unchanged.
C9_CancelGating ==
    [][last'.op = "cancel"
          => /\ ~allow_cancel_query => \A r \in Responses : aborted'[r] = 0
             /\ queries' = queries
             /\ order' = order
             /\ finished_query_during_display' = finished_query_during_display
             /\ progress_dialog'.id = progress_dialog.id]_vars

C9_Witness ==
    /\ last.op = "cancel"
    /\ ~allow_cancel_query
    /\ Active # {}
    /\ progress_dialog.wasCanceled
    /\ aborted = NoAbort

\* C10: a progress event for an id not in the map changes nothing: the map, the
\* finished counter and the dialog are unchanged; no dialog is created or shown again.
C10_UnknownProgress ==
    [][(last'.op = "progress" /\ last'.id \notin Active)
          => UNCHANGED <<queries, order, finished_query_during_display, progress_dialog,
                         live, serial, stimer>>]_vars

C10_Witness ==
    /\ last.op = "progress"
    /\ last.id \notin Active
    /\ Active # {}
    /\ progress_dialog # None

\* C11: when a timer fires, _show_dialog displays the held dialog if a dialog is held
\* and enable is true at that moment, and otherwise displays nothing and changes
\* nothing; so a timer that fires when the query map is empty (no dialog is held then)
\* or when enable is false displays no dialog.
C11_DisplayGating ==
    [][last'.op = "timer"
          => /\ progress_dialog' =
                    IF progress_dialog # None /\ enable
                    THEN [progress_dialog EXCEPT !.visible = TRUE]
                    ELSE progress_dialog
             /\ Active = {} => ~progress_dialog'.visible
             /\ ~enable => progress_dialog'.visible = progress_dialog.visible
             /\ UNCHANGED <<queries, order, finished_query_during_display, live, serial,
                            enable, minimum_duration>>]_vars

\* a timer has fired inside a block that disables the dialog, for a dialog old enough
C11_Witness ==
    /\ last.op = "timer"
    /\ ~enable
    /\ progress_dialog # None
    /\ progress_dialog.age = progress_dialog.minimumDuration
    /\ progress_dialog.minimumDuration > 0
    /\ ~progress_dialog.visible

\* C12: when the body of a context() block raises, every option that was passed to
\* context() is back to the value it had just before the block (the body having called
\* no setter) once the exception has left the block.
C12_RestoreOnException ==
    [][last'.op = "raise"
          => LET f == ctx[Len(ctx)]
             IN  ~f.touched => Agree(f.kwargs.keys, Now', f.before)]_vars

\* C13: while a dialog is held, the finished counter is the number of remove events
\* handled since that dialog was created whose id was in the query map when handled:
\* the creation of a dialog sets it to 0, a remove of an id in the map adds 1, and no
\* other event (a remove of an id not in the map included) changes it.
C13_CountsCompleted ==
    [][progress_dialog' # None
          => finished_query_during_display' =
                IF Created THEN 0
                ELSE IF last'.op = "remove" /\ last'.id \in Active
                     THEN finished_query_during_display + 1
                     ELSE finished_query_during_display]_vars

\* C14: whenever a timer displays the held dialog (it fires while a dialog is held and
\* enable is true), at least the minimum duration given to that dialog at its creation
\* has passed since that dialog was created, whatever the order of the add and remove
\* events and of the timers.
C14_MinimumDurationPerDialog ==
    [][(last'.op = "timer" /\ progress_dialog # None /\ enable)
          => progress_dialog.age >= progress_dialog.minimumDuration]_vars

====
